---- MODULE Spec2Model ----
(***************************************************************************)
(* Bulk PageSpeed checker (app.py): sitemap discovery, one Lighthouse      *)
(* audit per URL, one CSV row appended per audit, a delay between audits.  *)
(*                                                                         *)
(* Numbers read from the Lighthouse JSON are kept as integers counting     *)
(* thousandths of the JSON value (0.873 is 873, 1234.567 is 1234567).      *)
(* A rounded metric is kept as the integer count of its last decimal       *)
(* (87.3 with one decimal is 873).  The sample values have no rounding     *)
(* ties, so the rounding mode of round() does not matter for them.         *)
(*                                                                         *)
(* Taken from the environment: args.delay is not negative (time.sleep      *)
(* raises on a negative value); two calls of run_lighthouse do not fall    *)
(* in the same second, so each call has an output file name of its own;    *)
(* a row is shorter than the file buffer, so it reaches the file in one    *)
(* write when its with-block closes the file.                              *)
(***************************************************************************)
EXTENDS FiniteSets, Integers, Sequences, TLC

VARIABLES
  pc,            \* position of main
  sitemap_url,   \* args.sitemap, a sequence of characters
  domain_name,   \* extract_domain(sitemap_url)
  response,      \* what the HTTP GET of the sitemap yields
  delay,         \* args.delay
  urls,          \* list returned by get_urls_from_sitemap
  i,             \* loop counter of enumerate(urls, 1)
  result,        \* dict returned by the current run_lighthouse call
  csv_exists,    \* the report file exists on disk
  csv_rows,      \* the rows of the report file on disk
  calls,         \* URLs run_lighthouse was invoked with, in order
  history,       \* one record per returned run_lighthouse call
  tmpfiles,      \* calls whose lighthouse_report_*.json is still on disk
  sleeps,        \* one record per time.sleep(delay) performed
  truncOpens,    \* number of open(output_csv, "w")
  appendsDone,   \* number of append with-blocks that have returned
  alive          \* the process has not been terminated from outside

vars == <<pc, sitemap_url, domain_name, response, delay, urls, i, result,
          csv_exists, csv_rows, calls, history, tmpfiles, sleeps,
          truncOpens, appendsDone, alive>>

----------------------------------------------------------------------------
(* Bounds of the model *)

MaxUrls == 2
MaxElems == 2
MaxHost == 6

----------------------------------------------------------------------------
(* Values: JSON values and Python values that end in a CSV cell *)

JNum(n) == [t |-> "num", n |-> n]
JNull == [t |-> "null"]
JObj(f) == [t |-> "obj", f |-> f]
EmptyDict == JObj(<<>>)
Raise == [t |-> "raise"]

IsDict(v) == v.t = "obj"
IsNum(v) == v.t = "num"

Number(n) == [t |-> "num", n |-> n]
Str(s) == [t |-> "str", s |-> s]

MetricNames == {"performance", "speed_index", "lcp", "inp", "cls"}

default_error_values ==
  [performance |-> Str("Error"), speed_index |-> Str("Error"),
   lcp |-> Str("Error"), inp |-> Str("Error"), cls |-> Str("Error")]

----------------------------------------------------------------------------
(* Metric extraction of run_lighthouse *)

\* d[k]: a missing key raises KeyError
DictGet_Subscript(d, k, default) == IF k \in DOMAIN d.f THEN d.f[k] ELSE Raise

\* d.get(k, default) on a dict d
DictGet(d, k, default) == IF k \in DOMAIN d.f THEN d.f[k] ELSE default

\* x.get(k1, {}).get(k2, default); .get on a value that is no dict raises
\* AttributeError
GetGet(x, k1, k2, default) ==
  IF ~IsDict(x) THEN Raise
  ELSE LET inner == DictGet(x, k1, EmptyDict)
       IN  IF ~IsDict(inner) THEN Raise ELSE DictGet(inner, k2, default)

Pow10(k) == IF k = 0 THEN 1 ELSE IF k = 1 THEN 10 ELSE IF k = 2 THEN 100 ELSE 1000

\* n / d rounded to the nearest integer, ties to even (n >= 0, d > 0)
RoundDiv(n, d) ==
  LET q == n \div d
      r == n % d
  IN  IF 2 * r > d THEN q + 1
      ELSE IF 2 * r < d THEN q
      ELSE IF q % 2 = 0 THEN q ELSE q + 1

\* round(x, ndigits) of x = num / den thousandths, as a count of 10^-ndigits
Round(num, den, ndigits) == RoundDiv(num * Pow10(ndigits), den * 1000)

PerformanceFactor == 100
MsPerSecond == 1000
PerformanceDigits == 1
SpeedIndexDigits == 2
LcpDigits == 2
InpDigits == 2
ClsDigits == 3

\* lines 71-87: the metrics dict, or Raise when a lookup or the arithmetic
\* raises (AttributeError, TypeError)
ExtractMetrics(data) ==
  IF ~IsDict(data) THEN Raise
  ELSE
    LET audits == DictGet(data, "audits", EmptyDict)
        categories == DictGet(data, "categories", EmptyDict)
        score == GetGet(categories, "performance", "score", JNum(0))
        si == GetGet(audits, "speed-index", "numericValue", JNum(0))
        lcp == GetGet(audits, "largest-contentful-paint", "numericValue", JNum(0))
        \* the default argument is evaluated before the outer .get is called
        fid == GetGet(audits, "first-input-delay", "numericValue", JNum(0))
        inp == IF fid = Raise THEN Raise
               ELSE GetGet(audits, "interaction-to-next-paint", "numericValue", fid)
        cls == GetGet(audits, "cumulative-layout-shift", "numericValue", JNum(0))
    IN  IF \E v \in {score, si, lcp, inp, cls} : ~IsNum(v) THEN Raise
        ELSE [performance |-> Number(Round(score.n * PerformanceFactor, 1, PerformanceDigits)),
              speed_index |-> Number(Round(si.n, MsPerSecond, SpeedIndexDigits)),
              lcp |-> Number(Round(lcp.n, MsPerSecond, LcpDigits)),
              inp |-> Number(Round(inp.n, 1, InpDigits)),
              cls |-> Number(Round(cls.n, 1, ClsDigits))]

----------------------------------------------------------------------------
(* What one invocation of the lighthouse command does to run_lighthouse *)

FileAbsent == [t |-> "absent"]
FileInvalid == [t |-> "invalid"]
FileJson(d) == [t |-> "json", data |-> d]

\* proc: how subprocess.run ends; file: the output file the tool left behind
Outcome(p, f) == [proc |-> p, file |-> f]

AuditKeys == {"speed-index", "largest-contentful-paint",
              "interaction-to-next-paint", "first-input-delay",
              "cumulative-layout-shift"}

FullReport ==
  JObj([categories |-> JObj([performance |-> JObj([score |-> JNum(873)])]),
        audits |-> JObj([k \in AuditKeys |-> JObj([numericValue |-> JNum(1234567)])])])

\* the report Lighthouse writes when the page could not be measured:
\* score is null and the audits carry no numericValue
NullScoreReport ==
  JObj([categories |-> JObj([performance |-> JObj([score |-> JNull])]),
        audits |-> JObj([k \in AuditKeys |-> EmptyDict])])

SampleOutcomes ==
  { Outcome("not_installed", FileAbsent),
    Outcome("oserror", FileAbsent),
    Outcome("timeout", FileAbsent),
    Outcome("timeout", FileJson(FullReport)),
    Outcome("exited", FileAbsent),
    Outcome("exited", FileInvalid),
    Outcome("exited", FileJson(FullReport)),
    Outcome("exited", FileJson(EmptyDict)),
    Outcome("exited", FileJson(JNull)),
    Outcome("exited", FileJson(NullScoreReport)) }

\* lines 41-87, the try body: the exception it raises ("none" if it returns),
\* the value it returns, and whether os.remove(output_file) was reached
TryBody(o) ==
  IF o.proc = "timeout" THEN [exc |-> "TimeoutExpired", value |-> Raise, removed |-> FALSE]
  ELSE IF o.proc = "not_installed" THEN [exc |-> "FileNotFoundError", value |-> Raise, removed |-> FALSE]
  ELSE IF o.proc = "oserror" THEN [exc |-> "Exception", value |-> Raise, removed |-> FALSE]
  ELSE IF o.file = FileAbsent THEN [exc |-> "FileNotFoundError", value |-> Raise, removed |-> FALSE]
  ELSE IF o.file = FileInvalid THEN [exc |-> "JSONDecodeError", value |-> Raise, removed |-> FALSE]
  ELSE LET m == ExtractMetrics(o.file.data)
       IN  IF m = Raise THEN [exc |-> "Exception", value |-> Raise, removed |-> TRUE]
           ELSE [exc |-> "none", value |-> m, removed |-> TRUE]

\* lines 89-100: the except clause that handles exc, by the message it prints
ExceptClause_NoCatchAll(exc) ==
  IF exc = "TimeoutExpired" THEN "timeout"
  ELSE IF exc = "FileNotFoundError" THEN "not_installed"
  ELSE IF exc = "JSONDecodeError" THEN "parse_failure"
  ELSE "uncaught"

ExceptClause(exc) ==
  IF exc = "TimeoutExpired" THEN "timeout"
  ELSE IF exc = "FileNotFoundError" THEN "not_installed"
  ELSE IF exc = "JSONDecodeError" THEN "parse_failure"
  ELSE "unexpected"

\* run_lighthouse(url) when the tool behaves as o: what it returns, what it
\* prints, whether an exception escapes, whether the output file stays
run_lighthouse(url, o) ==
  LET b == TryBody(o)
      h == ExceptClause(b.exc)
  IN  IF b.exc = "none"
      THEN [url |-> url, outcome |-> o, escaped |-> FALSE, value |-> b.value,
            printed |-> <<>>, leftover |-> FALSE]
      ELSE [url |-> url, outcome |-> o, escaped |-> (h = "uncaught"),
            value |-> default_error_values,
            printed |-> IF h = "uncaught" THEN <<>> ELSE <<h>>,
            leftover |-> (o.file # FileAbsent /\ ~b.removed)]

----------------------------------------------------------------------------
(* extract_domain: strings are sequences of characters *)

StartsWith(s, p) == Len(s) >= Len(p) /\ SubSeq(s, 1, Len(p)) = p

\* str.replace(old, ""): every non-overlapping occurrence, left to right
RECURSIVE Remove(_, _)
Remove(s, old) ==
  IF s = <<>> THEN <<>>
  ELSE IF StartsWith(s, old) THEN Remove(SubSeq(s, Len(old) + 1, Len(s)), old)
  ELSE <<Head(s)>> \o Remove(Tail(s), old)

\* the least k in 1..Len(s) with s[k] in cs, or Len(s) + 1
FirstOf(s, cs) ==
  IF \E k \in 1..Len(s) : s[k] \in cs
  THEN CHOOSE k \in 1..Len(s) : s[k] \in cs /\ \A j \in 1..(k - 1) : s[j] \notin cs
  ELSE Len(s) + 1

\* str.split(sep)[0]
SplitFirst(s, sep) == SubSeq(s, 1, FirstOf(s, {sep}) - 1)

\* urllib.parse.urlparse(url).netloc for a url of the form scheme://netloc...
Netloc(url) ==
  LET c == FirstOf(url, {":"})
      hasNetloc == c + 2 <= Len(url) /\ url[c + 1] = "/" /\ url[c + 2] = "/"
      rest == SubSeq(url, c + 3, Len(url))
  IN  IF hasNetloc THEN SubSeq(rest, 1, FirstOf(rest, {"/", "?", "#"}) - 1) ELSE <<>>

Www == <<"w", "w", "w", ".">>

extract_domain(url) == SplitFirst(Remove(Netloc(url), Www), ":")

----------------------------------------------------------------------------
(* get_urls_from_sitemap *)

SitemapNs == "http://www.sitemaps.org/schemas/sitemap/0.9"
NoNs == ""
None == "None"

\* one <url><loc>text</loc></url> child of the root: the namespaces of the
\* two elements and the text of loc (None for an empty element)
Entry(urlNs, locNs, text) == [urlNs |-> urlNs, locNs |-> locNs, text |-> text]

\* root.findall('.//ns:url/ns:loc', namespace)
FindAllQualified(doc) ==
  SelectSeq(doc, LAMBDA e : e.urlNs = SitemapNs /\ e.locNs = SitemapNs)

FindAllAnyNamespace(doc) == doc

FindAll(doc) == FindAllQualified(doc)

\* lines 15-23, the try body: the exception it raises ("none" if it
\* returns) and the list it returns
FetchAndParse(r) ==
  IF r.net = "error" THEN [exc |-> "ConnectionError", urls |-> <<>>]
  ELSE IF r.status # "success" THEN [exc |-> "HTTPError", urls |-> <<>>]
  ELSE IF ~r.wellformed THEN [exc |-> "ParseError", urls |-> <<>>]
  ELSE LET found == FindAll(r.doc)
       IN  [exc |-> "none", urls |-> [k \in 1..Len(found) |-> found[k].text]]

\* the variant without try/except (app2.py): a failed fetch raises
get_urls_from_sitemap_NoTry(r) ==
  LET b == FetchAndParse(r)
  IN  [raised |-> (b.exc # "none"), urls |-> b.urls]

\* lines 12-27
get_urls_from_sitemap(r) ==
  LET b == FetchAndParse(r)
  IN  [raised |-> FALSE, urls |-> IF b.exc = "none" THEN b.urls ELSE <<>>]

----------------------------------------------------------------------------
(* Inputs *)

Seqs(S, n) == UNION {[1..k -> S] : k \in 0..n}

Failed(net, status) == [net |-> net, status |-> status, wellformed |-> FALSE, doc |-> <<>>]
Fetched(doc) == [net |-> "ok", status |-> "success", wellformed |-> TRUE, doc |-> doc]

FailedResponses ==
  {Failed("error", "none"), Failed("ok", "http_error"), Failed("ok", "success")}

PageUrls == {"A", "B"}

\* sitemaps as the protocol defines them, and one written without namespace
MainResponses ==
  FailedResponses
  \cup {Fetched(d) : d \in Seqs({Entry(SitemapNs, SitemapNs, u) : u \in PageUrls}, MaxUrls)}
  \cup {Fetched(<<Entry(NoNs, NoNs, "A")>>)}

AllEntries ==
  {Entry(un, ln, t) : un \in {SitemapNs, NoNs}, ln \in {SitemapNs, NoNs},
                      t \in PageUrls \cup {None}}

SitemapResponses == FailedResponses \cup {Fetched(d) : d \in Seqs(AllEntries, MaxElems)}

DefaultDelay == 5
Delays == {0, DefaultDelay}

Url(netloc) == <<"h", ":", "/", "/">> \o netloc \o <<"/", "s">>

\* host names over the letters w and a: labels are not empty
HostNames ==
  {h \in Seqs({"w", "a", "."}, MaxHost) :
     /\ h # <<>>
     /\ h[1] # "." /\ h[Len(h)] # "."
     /\ \A k \in 1..(Len(h) - 1) : ~(h[k] = "." /\ h[k + 1] = ".")}

SitemapUrls == {Url(h \o p) : h \in HostNames, p \in {<<>>, <<":", "4">>}}

SampleSitemapUrl == Url(<<"w", "w", "w", ".", "a", ":", "4">>)

----------------------------------------------------------------------------
(* The report file *)

Header ==
  <<Str("URL"), Str("Performance Score"), Str("Speed Index (s)"), Str("LCP (s)"),
    Str("INP (ms)"), Str("CLS"), Str("Waktu Pengukuran")>>

\* lines 154-162
Row(url, r) ==
  <<Str(url), r["performance"], r["speed_index"], r["lcp"], r["inp"], r["cls"],
    Str("now")>>

----------------------------------------------------------------------------
(* main *)

InitWith(sm, rs) ==
  /\ pc = "start"
  /\ sitemap_url \in sm
  /\ domain_name = <<>>
  /\ response \in rs
  /\ delay \in Delays
  /\ urls = <<>>
  /\ i = 0
  /\ result = <<>>
  /\ csv_exists = FALSE
  /\ csv_rows = <<>>
  /\ calls = <<>>
  /\ history = <<>>
  /\ tmpfiles = {}
  /\ sleeps = <<>>
  /\ truncOpens = 0
  /\ appendsDone = 0
  /\ alive = TRUE

Init == InitWith({SampleSitemapUrl}, MainResponses)

\* lines 114-118
ResolveName ==
  /\ alive
  /\ pc = "start"
  /\ domain_name' = extract_domain(sitemap_url)
  /\ pc' = "discover"
  /\ UNCHANGED <<sitemap_url, response, delay, urls, i, result, csv_exists,
                 csv_rows, calls, history, tmpfiles, sleeps, truncOpens, appendsDone, alive>>

\* lines 120-128
Discover ==
  /\ alive
  /\ pc = "discover"
  /\ LET got == get_urls_from_sitemap(response)
     IN  /\ urls' = got.urls
         /\ pc' = IF got.raised THEN "crashed"
                  ELSE IF got.urls = <<>> THEN "done"
                  ELSE "create"
  /\ UNCHANGED <<sitemap_url, domain_name, response, delay, i, result, csv_exists,
                 csv_rows, calls, history, tmpfiles, sleeps, truncOpens, appendsDone, alive>>

\* line 131: open(output_csv, "w") creates or truncates the file
OpenReport ==
  /\ alive
  /\ pc = "create"
  /\ csv_exists' = TRUE
  /\ csv_rows' = <<>>
  /\ truncOpens' = truncOpens + 1
  /\ pc' = "header"
  /\ UNCHANGED <<sitemap_url, domain_name, response, delay, urls, i, result,
                 calls, history, tmpfiles, sleeps, appendsDone, alive>>

\* lines 132-141: the header reaches the file when the with-block closes it;
\* line 144: the loop starts
WriteHeader ==
  /\ alive
  /\ pc = "header"
  /\ csv_rows' = Append(csv_rows, Header)
  /\ i' = 1
  /\ pc' = "loop"
  /\ UNCHANGED <<sitemap_url, domain_name, response, delay, urls, result, csv_exists,
                 calls, history, tmpfiles, sleeps, truncOpens, appendsDone, alive>>

\* lines 145-148: run_lighthouse(url) is invoked
StartAudit ==
  /\ alive
  /\ pc = "loop"
  /\ i <= Len(urls)
  /\ calls' = Append(calls, urls[i])
  /\ pc' = "audit"
  /\ UNCHANGED <<sitemap_url, domain_name, response, delay, urls, i, result, csv_exists,
                 csv_rows, history, tmpfiles, sleeps, truncOpens, appendsDone, alive>>

\* lines 39-100 and 148-149: run_lighthouse returns (or an exception escapes)
ReturnAudit(o) ==
  /\ alive
  /\ pc = "audit"
  /\ LET r == run_lighthouse(urls[i], o)
     IN  /\ history' = Append(history, r)
         /\ tmpfiles' = IF r.leftover THEN tmpfiles \cup {Len(calls)} ELSE tmpfiles
         /\ result' = IF r.escaped THEN result ELSE r.value
         /\ pc' = IF r.escaped THEN "crashed" ELSE "append"
  /\ UNCHANGED <<sitemap_url, domain_name, response, delay, urls, i, csv_exists,
                 csv_rows, calls, sleeps, truncOpens, appendsDone, alive>>

AppendMode_Truncating == "w"

\* line 152: the mode the report is reopened in for each row
AppendMode == "a"

\* line 152: open(output_csv, mode); mode "w" empties the file, "a" keeps it
OpenAppend ==
  /\ alive
  /\ pc = "append"
  /\ csv_exists' = TRUE
  /\ csv_rows' = IF AppendMode = "w" THEN <<>> ELSE csv_rows
  /\ truncOpens' = IF AppendMode = "w" THEN truncOpens + 1 ELSE truncOpens
  /\ pc' = "write"
  /\ UNCHANGED <<sitemap_url, domain_name, response, delay, urls, i, result,
                 calls, history, tmpfiles, sleeps, appendsDone, alive>>

\* lines 153-162: the row reaches the file when the with-block closes it
WriteRow ==
  /\ alive
  /\ pc = "write"
  /\ csv_rows' = Append(csv_rows, Row(urls[i], result))
  /\ appendsDone' = appendsDone + 1
  /\ pc' = "written"
  /\ UNCHANGED <<sitemap_url, domain_name, response, delay, urls, i, result, csv_exists,
                 calls, history, tmpfiles, sleeps, truncOpens, alive>>

NextIndex_Skip(k) == k + 2

\* line 144: enumerate(urls, 1) hands out the positions one by one
NextIndex(k) == k + 1

SleepAfterEveryUrl(k, n) == TRUE

\* line 168
MoreUrls(k, n) == k < n

\* lines 164-169 and, for the last URL, the end of the loop
AfterRow ==
  /\ alive
  /\ pc = "written"
  /\ IF MoreUrls(i, Len(urls))
     THEN pc' = "sleep" /\ i' = i
     ELSE /\ i' = NextIndex(i)
          /\ pc' = IF NextIndex(i) <= Len(urls) THEN "loop" ELSE "done"
  /\ UNCHANGED <<sitemap_url, domain_name, response, delay, urls, result, csv_exists,
                 csv_rows, calls, history, tmpfiles, sleeps, truncOpens, appendsDone, alive>>

\* line 170: time.sleep(delay), then the next iteration
Sleep ==
  /\ alive
  /\ pc = "sleep"
  /\ sleeps' = Append(sleeps, [rows |-> appendsDone, calls |-> Len(calls), secs |-> delay])
  /\ i' = NextIndex(i)
  /\ pc' = IF NextIndex(i) <= Len(urls) THEN "loop" ELSE "done"
  /\ UNCHANGED <<sitemap_url, domain_name, response, delay, urls, result, csv_exists,
                 csv_rows, calls, history, tmpfiles, truncOpens, appendsDone, alive>>

\* the process is terminated from outside at any point of the run
Kill ==
  /\ alive
  /\ pc \notin {"done", "crashed"}
  /\ alive' = FALSE
  /\ UNCHANGED <<pc, sitemap_url, domain_name, response, delay, urls, i, result,
                 csv_exists, csv_rows, calls, history, tmpfiles, sleeps,
                 truncOpens, appendsDone>>

Audit == \E o \in SampleOutcomes : ReturnAudit(o)

Next ==
  \/ ResolveName
  \/ Discover
  \/ OpenReport
  \/ WriteHeader
  \/ StartAudit
  \/ Audit
  \/ OpenAppend
  \/ WriteRow
  \/ AfterRow
  \/ Sleep
  \/ Kill

Spec == Init /\ [][Next]_vars

----------------------------------------------------------------------------
(* Properties of a run of main *)

N == Len(urls)

IsPrefix(s, t) == Len(s) <= Len(t) /\ \A k \in 1..Len(s) : s[k] = t[k]

\* the report was created: the header with-block of lines 131-141 returned
ReportCreated == i >= 1

MetricColumns == 2..6

AllError(row) == \A c \in MetricColumns : row[c] = Str("Error")

\* the audit failed: a timeout, a missing tool, no or unparseable output,
\* or any other error
Failure(o) ==
  \/ o.proc \in {"timeout", "not_installed", "oserror"}
  \/ o.file \in {FileAbsent, FileInvalid}
  \/ ExtractMetrics(o.file.data) = Raise

Progress ==
  \/ ResolveName \/ Discover \/ OpenReport \/ WriteHeader \/ StartAudit
  \/ Audit \/ OpenAppend \/ WriteRow \/ AfterRow \/ Sleep

\* C1: run_lighthouse is invoked once per list position, in list order, and
\* no audit outcome aborts the run; when the run ends, the report holds the
\* header and exactly one data row per discovered URL, row k carrying urls[k],
\* duplicates included.
C1_EveryUrlOnceInOrder ==
  /\ IsPrefix(calls, urls)
  /\ pc # "crashed"
  /\ (pc = "done" /\ N >= 1) =>
        /\ calls = urls
        /\ Len(history) = N
        /\ Len(csv_rows) = N + 1
        /\ csv_rows[1] = Header
        /\ \A k \in 1..N : csv_rows[k + 1][1] = Str(urls[k])

C1_Witness ==
  /\ pc = "done"
  /\ N = 2 /\ urls[1] = urls[2]
  /\ Len(csv_rows) = 3
  /\ Failure(history[1].outcome) /\ ~Failure(history[2].outcome)

\* C2: a failed audit returns the dict with "Error" in all five metrics, no
\* exception escapes run_lighthouse, the row written for that URL has
\* "Error" in its five metric columns, and main goes on: the run is never
\* aborted, and at its end every URL after the failed one was audited too.
C2_FailureIsolated ==
  /\ \A c \in 1..Len(history) :
        Failure(history[c].outcome) =>
          /\ ~history[c].escaped
          /\ \A m \in MetricNames : history[c].value[m] = Str("Error")
          /\ (appendsDone >= c) => AllError(csv_rows[c + 1])
          /\ (pc = "done") => Len(calls) = N /\ appendsDone = N
  /\ (alive /\ pc # "done") => ENABLED Progress

C2_Witness ==
  /\ pc = "done"
  /\ N = 2
  /\ history[1].outcome = Outcome("oserror", FileAbsent)
  /\ AllError(csv_rows[2])
  /\ ~Failure(history[2].outcome)
  /\ ~AllError(csv_rows[3])

\* a complete row: the URL, five metric cells that are five numbers or five
\* times "Error", and the time of measurement
CompleteRow(row, url) ==
  /\ Len(row) = 7
  /\ row[1] = Str(url)
  /\ \/ AllError(row)
     \/ \A c \in MetricColumns : row[c].t = "num"
  /\ row[7].t = "str"

C3_State ==
  /\ truncOpens <= 1
  /\ (calls # <<>>) => truncOpens = 1
  /\ ReportCreated =>
        /\ csv_exists
        /\ appendsDone <= N
        /\ Len(csv_rows) = appendsDone + 1
        /\ csv_rows[1] = Header
        /\ \A k \in 1..appendsDone : CompleteRow(csv_rows[k + 1], urls[k])

C3_Step ==
  /\ (truncOpens' # truncOpens) => (truncOpens = 0 /\ calls = <<>>)
  /\ ReportCreated => IsPrefix(csv_rows, csv_rows')
  /\ (appendsDone' # appendsDone) =>
        (appendsDone' = appendsDone + 1 /\ Len(csv_rows') = Len(csv_rows) + 1)

\* C3: once the report is created, in every state of the run, the states
\* in which the process was killed included, the file is the header followed
\* by complete rows for exactly the first appendsDone URLs; the file is
\* opened for truncation once, before the first audit, and every later
\* write only appends: the rows present stay, unchanged and in place.
C3_ReportIsPrefix == [](C3_State) /\ [][C3_Step]_vars

C3_Witness ==
  /\ ~alive
  /\ pc = "audit"
  /\ i = 2
  /\ appendsDone = 1
  /\ Len(csv_rows) = 2

\* the fetch failed: network error, non-success status or malformed XML
FetchFailed ==
  response.net = "error" \/ response.status # "success" \/ ~response.wellformed

\* C4: when the sitemap fetch fails or yields no URL, the list returned is
\* empty, nothing is raised, run_lighthouse is never invoked, no row is
\* appended, and the run ends normally.
C4_EmptyDiscoveryEndsRun ==
  (pc \notin {"start", "discover"} /\ (FetchFailed \/ urls = <<>>)) =>
     /\ urls = <<>>
     /\ pc = "done"
     /\ alive
     /\ calls = <<>> /\ history = <<>>
     /\ appendsDone = 0 /\ csv_rows = <<>>

C4_Witness ==
  /\ pc = "done"
  /\ response = Failed("error", "none")
  /\ urls = <<>>

\* C5: sleep k lasts delay seconds and happens after row k is written and
\* before the audit of URL k + 1 starts; there is no sleep after the last
\* row: a run over N >= 1 URLs that ends has slept exactly N - 1 times.
C5_SleepsBetweenUrls ==
  /\ \A k \in 1..Len(sleeps) :
        sleeps[k] = [rows |-> k, calls |-> k, secs |-> delay]
  /\ Len(sleeps) <= appendsDone
  /\ Len(calls) <= Len(sleeps) + 1
  /\ (N >= 1) => Len(sleeps) <= N - 1
  /\ (pc = "done" /\ N >= 1) => Len(sleeps) = N - 1

C5_Witness ==
  /\ pc = "done"
  /\ N = 2
  /\ delay = DefaultDelay
  /\ sleeps = <<[rows |-> 1, calls |-> 1, secs |-> DefaultDelay]>>

\* the tool wrote the output file of this call
ToolWroteFile(o) == o.file # FileAbsent

\* C9: after every returned call of run_lighthouse, on every path, the
\* output file of that call is gone from the disk if the tool wrote it.
C9_TempFileRemoved ==
  \A c \in 1..Len(history) : ToolWroteFile(history[c].outcome) => c \notin tmpfiles

\* C10: every failed call prints exactly one failure message: the timeout
\* message only when the timeout expired, the not-installed message only
\* when the lighthouse command could not be found, the parse-failure
\* message only when the output could not be parsed, and the
\* unexpected-error message for every other failure, a tool that ran and
\* wrote no output file included.
C10_MessageKind(o) ==
  IF o.proc = "timeout" THEN "timeout"
  ELSE IF o.proc = "not_installed" THEN "not_installed"
  ELSE IF o.proc = "exited" /\ o.file = FileInvalid THEN "parse_failure"
  ELSE "unexpected"

C10_FailuresLoggedDistinctly ==
  \A c \in 1..Len(history) :
     IF Failure(history[c].outcome)
     THEN history[c].printed = <<C10_MessageKind(history[c].outcome)>>
     ELSE history[c].printed = <<>>

----------------------------------------------------------------------------
(* extract_domain over the sitemap URLs *)

InitDomain == InitWith(SitemapUrls, {Failed("error", "none")})

NextDomain == ResolveName

SpecDomain == InitDomain /\ [][NextDomain]_vars

\* the netloc the URL was built from: host, then ":" and the port if any
HostOf(url) == SplitFirst(SubSeq(url, 5, Len(url) - 2), ":")

\* the host with only a leading "www." removed
WithoutLeadingWww(h) == IF StartsWith(h, Www) THEN SubSeq(h, Len(Www) + 1, Len(h)) ELSE h

\* C7: extract_domain returns the host of the sitemap URL with only a
\* leading "www." removed and the port removed; a "www." elsewhere in the
\* host, and every other part of the host, stays.
C7_DomainStripsLeadingWwwAndPort ==
  (pc = "discover") => domain_name = WithoutLeadingWww(HostOf(sitemap_url))

----------------------------------------------------------------------------
(* get_urls_from_sitemap over the sitemaps *)

InitSitemap ==
  /\ pc = "discover"
  /\ sitemap_url = SampleSitemapUrl
  /\ domain_name = extract_domain(SampleSitemapUrl)
  /\ response \in SitemapResponses
  /\ delay = DefaultDelay
  /\ urls = <<>>
  /\ i = 0
  /\ result = <<>>
  /\ csv_exists = FALSE
  /\ csv_rows = <<>>
  /\ calls = <<>>
  /\ history = <<>>
  /\ tmpfiles = {}
  /\ sleeps = <<>>
  /\ truncOpens = 0
  /\ appendsDone = 0
  /\ alive = TRUE

NextSitemap == Discover

SpecSitemap == InitSitemap /\ [][NextSitemap]_vars

Discovered == pc \notin {"start", "discover"} /\ ~FetchFailed

\* the texts of the url/loc elements of the document, in document order
RECURSIVE LocTexts(_)
LocTexts(doc) ==
  IF doc = <<>> THEN <<>> ELSE <<Head(doc).text>> \o LocTexts(Tail(doc))

\* the texts of the url/loc elements whose two tags are in the sitemaps.org
\* namespace, in document order
RECURSIVE QualifiedLocTexts(_)
QualifiedLocTexts(doc) ==
  IF doc = <<>> THEN <<>>
  ELSE (IF Head(doc).urlNs = SitemapNs /\ Head(doc).locNs = SitemapNs
        THEN <<Head(doc).text>> ELSE <<>>) \o QualifiedLocTexts(Tail(doc))

AllQualified(doc) == \A k \in 1..Len(doc) : doc[k].urlNs = SitemapNs /\ doc[k].locNs = SitemapNs
NoneQualified(doc) == \A k \in 1..Len(doc) : doc[k].urlNs = NoNs /\ doc[k].locNs = NoNs

----------------------------------------------------------------------------
(* run_lighthouse over the JSON documents the tool may write *)

Absent == [t |-> "absent"]

\* the dict with the keys of g whose value is not Absent
Prune(g) == [k \in {x \in DOMAIN g : g[x] # Absent} |-> g[k]]

SampleValue(k) ==
  CASE k = "speed-index" -> 1234567
    [] k = "largest-contentful-paint" -> 2345678
    [] k = "interaction-to-next-paint" -> 123456
    [] k = "first-input-delay" -> 16789
    [] k = "cumulative-layout-shift" -> 123

EntryShapes == {"absent", "null", "empty", "null_value", "number"}

EntryOf(k, shape) ==
  CASE shape = "absent" -> Absent
    [] shape = "null" -> JNull
    [] shape = "empty" -> EmptyDict
    [] shape = "null_value" -> JObj([numericValue |-> JNull])
    [] shape = "number" -> JObj([numericValue |-> JNum(SampleValue(k))])

AuditsValues ==
  {Absent, JNull}
  \cup {JObj(Prune([k \in AuditKeys |-> EntryOf(k, sh[k])])) : sh \in [AuditKeys -> EntryShapes]}

PerformanceValues ==
  {Absent, JNull, EmptyDict, JObj([score |-> JNull]), JObj([score |-> JNum(873)])}

CategoriesValues ==
  {Absent, JNull} \cup {JObj(Prune([performance |-> p])) : p \in PerformanceValues}

JsonDocuments ==
  {JNull} \cup {JObj(Prune([categories |-> c, audits |-> a])) :
                  c \in CategoriesValues, a \in AuditsValues}

\* main has entered its first audit of a one-URL sitemap (line 148)
InitExtract ==
  /\ pc = "audit"
  /\ sitemap_url = SampleSitemapUrl
  /\ domain_name = extract_domain(SampleSitemapUrl)
  /\ response = Fetched(<<Entry(SitemapNs, SitemapNs, "A")>>)
  /\ delay = DefaultDelay
  /\ urls = <<"A">>
  /\ i = 1
  /\ result = <<>>
  /\ csv_exists = TRUE
  /\ csv_rows = <<Header>>
  /\ calls = <<"A">>
  /\ history = <<>>
  /\ tmpfiles = {}
  /\ sleeps = <<>>
  /\ truncOpens = 1
  /\ appendsDone = 0
  /\ alive = TRUE

NextExtract == \E d \in JsonDocuments : ReturnAudit(Outcome("exited", FileJson(d)))

SpecExtract == InitExtract /\ [][NextExtract]_vars

Has(d, k) == IsDict(d) /\ k \in DOMAIN d.f

\* the field d[k1][k2][k3] is absent: a key of the path is missing from the
\* dict that should hold it
PathAbsent(d, k1, k2, k3) ==
  \/ ~Has(d, k1)
  \/ IsDict(d.f[k1]) /\ ~Has(d.f[k1], k2)
  \/ IsDict(d.f[k1]) /\ IsDict(d.f[k1].f[k2]) /\ ~Has(d.f[k1].f[k2], k3)

\* the field d[k1][k2][k3] is present and a number
PathNumber(d, k1, k2, k3) ==
  /\ Has(d, k1) /\ Has(d.f[k1], k2) /\ Has(d.f[k1].f[k2], k3)
  /\ IsNum(d.f[k1].f[k2].f[k3])

PathValue(d, k1, k2, k3) == d.f[k1].f[k2].f[k3].n

\* every field on the path d[k1][k2][k3] that is present has the type the
\* extraction expects: dict, dict, number
PathTyped(d, k1, k2, k3) == PathAbsent(d, k1, k2, k3) \/ PathNumber(d, k1, k2, k3)

AuditOf(metric) ==
  CASE metric = "speed_index" -> "speed-index"
    [] metric = "lcp" -> "largest-contentful-paint"
    [] metric = "inp" -> "interaction-to-next-paint"
    [] metric = "cls" -> "cumulative-layout-shift"

\* the source field of the metric is absent from the document
SourceAbsent(d, metric) ==
  IF metric = "performance" THEN PathAbsent(d, "categories", "performance", "score")
  ELSE IF metric = "inp"
    THEN /\ PathAbsent(d, "audits", "interaction-to-next-paint", "numericValue")
         /\ PathAbsent(d, "audits", "first-input-delay", "numericValue")
    ELSE PathAbsent(d, "audits", AuditOf(metric), "numericValue")

WellTyped(d) ==
  /\ PathTyped(d, "categories", "performance", "score")
  /\ \A k \in AuditKeys : PathTyped(d, "audits", k, "numericValue")

\* INP is the interaction-to-next-paint value if present, else the
\* first-input-delay value, else 0 (two decimals of a value in thousandths)
InpRule(d, v) ==
  IF PathNumber(d, "audits", "interaction-to-next-paint", "numericValue")
  THEN v = Number(RoundDiv(PathValue(d, "audits", "interaction-to-next-paint", "numericValue"), 10))
  ELSE IF PathNumber(d, "audits", "first-input-delay", "numericValue")
  THEN v = Number(RoundDiv(PathValue(d, "audits", "first-input-delay", "numericValue"), 10))
  ELSE v = Number(0)

Audited == history # <<>>
Data == history[1].outcome.file.data

====
